---- MODULE Spec2Model ----
(***************************************************************************)
(* Model of app.py, the Streamlit diabetes prediction page.                *)
(*                                                                         *)
(* Streamlit executes the script top to bottom once per user interaction.  *)
(* One script run is modelled as the steps LoadModel, UserInput,           *)
(* DefineRanges, then the Predict button handler (or no click), and Rerun  *)
(* starts the next script run.                                             *)
(*                                                                         *)
(* Numbers with one decimal are kept in fixed point: bmi and the BMI       *)
(* range are in tenths (18.5 is 185), proba is in tenths of a percent      *)
(* (12.4 % is 124).  The remaining readings are integers (step=1).         *)
(* The chart itself (healthy_targets, the matplotlib calls) and the page   *)
(* chrome are not modelled beyond the bar colours.                         *)
(***************************************************************************)
EXTENDS Integers, Sequences, FiniteSets, TLC

\* Fixed-point factor: tenths (bmi step=0.1, proba shown with one decimal).
Scale == 10

\* How far beyond each healthy bound the entered readings go.
Margin == 1

\* Python's None (`value=None` of an empty number_input) and a script variable
\* not assigned yet; a variable that holds the value v is Some(v).
None == <<>>
Some(v) == <<v>>
Val(x) == x[1]

VARIABLES
    pc,               \* position of the script run
    model,            \* the loaded classifier, None before the load
    load_error,       \* st.error of the failed load was shown
    widgets_read,     \* user_input() has read the sidebar widgets
    glucose, blood_pressure, insulin, bmi, age, location,
    healthy_ranges,   \* the table of lines 61-67, None before it is built
    tips,             \* the table of lines 143-149, None before it is built
    button,           \* what st.sidebar.button("Predict Diabetes") returned
    predict_calls,    \* calls of model.predict in this run
    proba_calls,      \* calls of model.predict_proba in this run
    features,         \* the row handed to the classifier
    prediction,       \* prediction[0]
    proba,            \* percent, in tenths
    proba_failed,     \* the except branch of line 82 was taken
    health_score,
    warning,          \* st.warning of the incomplete input was shown
    tabs,             \* st.tabs was called
    result_msg,       \* tab1: "may have diabetes" / "unlikely to have diabetes"
    metric_score,     \* tab1: st.metric("Health Score", ...)
    colors,           \* tab2: bar colours
    attention_needed, \* tab2/tab3: attention messages
    all_healthy,      \* tab3: st.success("All entered values are within ...")
    tips_shown,       \* tab3: the tips rendered
    pdf_buffer,       \* the report text of create_pdf
    dom,              \* the values the user and the classifier may produce
    prev              \* observation: the previous run's request and outcome

inputVars == <<glucose, blood_pressure, insulin, bmi, age, location>>
outVars == <<button, predict_calls, proba_calls, features, prediction, proba,
             proba_failed, health_score, warning, tabs, result_msg, metric_score, colors,
             attention_needed, all_healthy, tips_shown, pdf_buffer, tips>>
vars == <<pc, model, load_error, widgets_read, inputVars, healthy_ranges,
          outVars, dom, prev>>

----------------------------------------------------------------------------
\* Static tables of the script.

HealthyRangesTable ==
    [c \in {"Glucose", "Blood Pressure", "Insulin", "BMI", "Age"} |->
        CASE c = "Glucose"        -> <<70, 140>>
          [] c = "Blood Pressure" -> <<60, 120>>
          [] c = "Insulin"        -> <<16, 166>>
          [] c = "BMI"            -> <<185, 249>>
          [] c = "Age"            -> <<18, 50>>]

\* list(healthy_ranges.keys()): a dict keeps insertion order.
categories == <<"Glucose", "Blood Pressure", "Insulin", "BMI", "Age">>

TipsTable ==
    [c \in {"Glucose", "Blood Pressure", "Insulin", "BMI", "Age"} |->
        CASE c = "Glucose" ->
               "Consider reducing sugar intake and increasing physical activity."
          [] c = "Blood Pressure" ->
               "Try reducing salt intake and managing stress."
          [] c = "Insulin" ->
               "Consult with a doctor about insulin resistance and diet control."
          [] c = "BMI" ->
               "A balanced diet and regular exercise may help improve BMI."
          [] c = "Age" ->
               "Regular health checkups are recommended."]

----------------------------------------------------------------------------
\* Pure computations of the Predict handler.

\* int(x) of a value x = n / Scale: truncation toward zero.
PyInt(n) == IF n >= 0 THEN n \div Scale ELSE -((-n) \div Scale)

\* Faulty variant: proba taken as a fraction of 1 instead of a percent.
HealthScoreFraction(p) == PyInt(100 * Scale - p \div 100)

\* health_score = int(100 - proba)
HealthScore(p) == PyInt(100 * Scale - p)

\* Faulty variant: the bounds themselves count as out of range.
OutOfRangeExclusive(ranges, cat, val) ==
    val <= ranges[cat][1] \/ val >= ranges[cat][2]

\* val < low or val > high
OutOfRange(ranges, cat, val) ==
    val < ranges[cat][1] \/ val > ranges[cat][2]

\* f"- **{cat}** is outside the healthy range ({low}-{high})."
AttentionMsg(ranges, cat) ==
    [cat |-> cat, low |-> ranges[cat][1], high |-> ranges[cat][2]]

\* Faulty variant: attention_needed is not emptied between requests, so the
\* messages of the previous request stay in the list.
RECURSIVE BarLoopKeep(_, _, _, _)
BarLoopKeep(ranges, cats, vals, i) ==
    IF i > Len(cats)
    THEN [colors |-> <<>>,
          attention |-> IF prev # None /\ Val(prev).outcome.attention_needed # None
                        THEN Val(Val(prev).outcome.attention_needed)
                        ELSE <<>>]
    ELSE LET rest == BarLoopKeep(ranges, cats, vals, i + 1)
         IN  IF vals[i] < ranges[cats[i]][1] \/ vals[i] > ranges[cats[i]][2]
             THEN [colors |-> <<"#E74C3C">> \o rest.colors,
                   attention |-> <<[cat |-> cats[i], low |-> ranges[cats[i]][1],
                                    high |-> ranges[cats[i]][2]]>> \o rest.attention]
             ELSE [colors |-> <<"#27AE60">> \o rest.colors,
                   attention |-> rest.attention]

\* The loop of lines 116-122 from index i on; returns the colours and the
\* attention messages appended.
RECURSIVE BarLoop(_, _, _, _)
BarLoop(ranges, cats, vals, i) ==
    IF i > Len(cats) THEN [colors |-> <<>>, attention |-> <<>>]
    ELSE LET rest == BarLoop(ranges, cats, vals, i + 1)
         IN  IF OutOfRange(ranges, cats[i], vals[i])
             THEN [colors |-> <<"#E74C3C">> \o rest.colors,
                   attention |-> <<AttentionMsg(ranges, cats[i])>> \o rest.attention]
             ELSE [colors |-> <<"#27AE60">> \o rest.colors,
                   attention |-> rest.attention]

\* Faulty variant: the tips are produced in the reverse of the order of the
\* attention messages.
RECURSIVE TipsLoopReversed(_, _, _, _, _)
TipsLoopReversed(ranges, tipTable, cats, vals, i) ==
    IF i > Len(cats) THEN <<>>
    ELSE LET rest == TipsLoopReversed(ranges, tipTable, cats, vals, i + 1)
         IN  IF vals[i] < ranges[cats[i]][1] \/ vals[i] > ranges[cats[i]][2]
             THEN rest \o <<tipTable[cats[i]]>>
             ELSE rest

\* The loop of lines 152-155 from index i on; returns the tips rendered.
RECURSIVE TipsLoop(_, _, _, _, _)
TipsLoop(ranges, tipTable, cats, vals, i) ==
    IF i > Len(cats) THEN <<>>
    ELSE LET rest == TipsLoop(ranges, tipTable, cats, vals, i + 1)
         IN  IF OutOfRange(ranges, cats[i], vals[i])
             THEN <<tipTable[cats[i]]>> \o rest
             ELSE rest

\* Faulty variant: the success message is shown outside the else branch.
AllHealthyAlways(attention) == TRUE

\* tab3: `if attention_needed: ... else: st.success(...)`; TRUE when the
\* success message is shown.
AllHealthy(attention) == Len(attention) = 0

\* if attention_needed: ... the tips loop
TipsSection(ranges, tipTable, cats, vals, attention) ==
    IF Len(attention) > 0 THEN TipsLoop(ranges, tipTable, cats, vals, 1) ELSE <<>>

\* None in [glucose, blood_pressure, insulin, bmi, age] or location == ""
Incomplete(g, b, i, m, a, loc) ==
    None \in {g, b, i, m, a} \/ loc = Some("")

\* tab1: the message chosen by prediction[0] == 1
ResultMsg(label) ==
    IF label = 1 THEN "may have diabetes" ELSE "unlikely to have diabetes"

\* create_pdf: the report text
ReportText(label, p, score, g, b, i, m, a, loc) ==
    [prediction |-> IF label = 1 THEN "Diabetes" ELSE "No Diabetes",
     risk |-> p, score |-> score,
     glucose |-> g, blood_pressure |-> b, insulin |-> i, bmi |-> m,
     age |-> a, location |-> loc]

----------------------------------------------------------------------------
\* The values the environment may supply.

Around(cat, example) ==
    LET lo == HealthyRangesTable[cat][1]
        hi == HealthyRangesTable[cat][2]
    IN  {None} \cup {Some(v) : v \in {lo, hi, example}
                                        \cup ((lo - Margin)..(lo - 1))
                                        \cup ((hi + 1)..(hi + Margin))}

\* Percents (in tenths) the classifier may return, among them non-integer
\* percents and values just outside 0..100.
ProbaSamples == {-10, -4, 0, 120, 124, 125, 126, 830, 1000, 1004, 1010}

FullDomain ==
    [glucose |-> Around("Glucose", 110),
     blood_pressure |-> Around("Blood Pressure", 80),
     insulin |-> Around("Insulin", 85),
     bmi |-> Around("BMI", 255),
     age |-> Around("Age", 35),
     location |-> {Some(""), Some("Narowal, Pakistan")},
     proba |-> ProbaSamples,
     track |-> FALSE]

SmallDomain ==
    [glucose |-> {None, Some(110), Some(200)},
     blood_pressure |-> {Some(80), Some(150)},
     insulin |-> {Some(85)},
     bmi |-> {Some(255)},
     age |-> {Some(35)},
     location |-> {Some(""), Some("Narowal, Pakistan")},
     proba |-> {120, 830},
     track |-> TRUE]

----------------------------------------------------------------------------
\* The script run.

Blank ==
    /\ pc = "start"
    /\ model = None
    /\ load_error = FALSE
    /\ widgets_read = FALSE
    /\ glucose = None /\ blood_pressure = None /\ insulin = None
    /\ bmi = None /\ age = None /\ location = None
    /\ healthy_ranges = None
    /\ tips = None
    /\ button = FALSE
    /\ predict_calls = 0 /\ proba_calls = 0
    /\ features = None /\ prediction = None /\ proba = None
    /\ proba_failed = FALSE
    /\ health_score = None
    /\ warning = FALSE /\ tabs = FALSE
    /\ result_msg = None /\ metric_score = None
    /\ colors = None /\ attention_needed = None
    /\ all_healthy = FALSE /\ tips_shown = None
    /\ pdf_buffer = None

Init == Blank /\ dom = FullDomain /\ prev = None

InitH == Blank /\ dom = SmallDomain /\ prev = None

\* model = joblib.load(MODEL_FILENAME) succeeds.  The classifier is opaque:
\* it may or may not have predict_proba.
LoadModelOk ==
    /\ pc = "start"
    /\ \E hp \in BOOLEAN : model' = Some([has_proba |-> hp])
    /\ pc' = "input"
    /\ UNCHANGED <<load_error, widgets_read, inputVars, healthy_ranges,
                   outVars, dom, prev>>

\* Faulty variant: st.stop() is missing and the script carries on.
AfterLoadErrorContinue == "input"

\* Where the script goes after the except branch of the load: st.stop().
AfterLoadError == "stopped"

\* joblib.load raises: st.error(...) and st.stop().
LoadModelFail ==
    /\ pc = "start"
    /\ load_error' = TRUE
    /\ pc' = AfterLoadError
    /\ UNCHANGED <<model, widgets_read, inputVars, healthy_ranges,
                   outVars, dom, prev>>

\* glucose, ..., location = user_input()
UserInput ==
    /\ pc = "input"
    /\ glucose' \in dom.glucose
    /\ blood_pressure' \in dom.blood_pressure
    /\ insulin' \in dom.insulin
    /\ bmi' \in dom.bmi
    /\ age' \in dom.age
    /\ location' \in dom.location
    /\ widgets_read' = TRUE
    /\ pc' = "ranges"
    /\ UNCHANGED <<model, load_error, healthy_ranges, outVars, dom, prev>>

\* healthy_ranges = {...}
DefineRanges ==
    /\ pc = "ranges"
    /\ healthy_ranges' = Some(HealthyRangesTable)
    /\ pc' = "button"
    /\ UNCHANGED <<model, load_error, widgets_read, inputVars, outVars,
                   dom, prev>>

\* What model.predict_proba(features)[0][1] * 100 may give: Some percent, or
\* None for an exception (always, when the classifier has no predict_proba).
ProbaOutcomes(m) ==
    IF Val(m).has_proba THEN {Some(p) : p \in dom.proba} \cup {None}
    ELSE {None}

\* Calls of predict_proba the try block makes: none when the attribute lookup
\* itself raises.
ProbaCallsMade(m) == IF Val(m).has_proba THEN 1 ELSE 0

\* Faulty variant: the fallback is the fraction 0.5 instead of 50 percent.
ProbaOrFallbackFraction(r) == IF r = None THEN Scale \div 2 ELSE Val(r)

\* proba after the try/except of lines 80-83
ProbaOrFallback(r) == IF r = None THEN 50 * Scale ELSE Val(r)

\* Faulty variant: the location is not checked.
RejectsNumbersOnly(g, b, i, m, a, loc) == None \in {g, b, i, m, a}

\* The branch of line 74: TRUE when the request is rejected.
Rejects(g, b, i, m, a, loc) == Incomplete(g, b, i, m, a, loc)

\* st.sidebar.button(...) is True: the Predict handler, lines 73-189.
Predict ==
    /\ pc = "button"
    /\ pc' = "done"
    /\ button' = TRUE
    /\ UNCHANGED <<model, load_error, widgets_read, inputVars,
                   healthy_ranges, dom, prev>>
    /\ IF Rejects(glucose, blood_pressure, insulin, bmi, age, location)
       THEN /\ warning' = TRUE
            /\ UNCHANGED <<predict_calls, proba_calls, features, prediction,
                           proba, proba_failed, health_score, tabs, result_msg,
                           metric_score, colors, attention_needed,
                           all_healthy, tips_shown, pdf_buffer, tips>>
       ELSE \E label \in {0, 1}, r \in ProbaOutcomes(model) :
            LET patient_values ==
                    <<Val(glucose), Val(blood_pressure), Val(insulin),
                      Val(bmi), Val(age)>>
                table == Val(healthy_ranges)
                p == ProbaOrFallback(r)
                score == HealthScore(p)
                bars == BarLoop(table, categories, patient_values, 1)
            IN  /\ features' = Some(patient_values)
                /\ predict_calls' = predict_calls + 1
                /\ proba_calls' = proba_calls + ProbaCallsMade(model)
                /\ prediction' = Some(label)
                /\ proba' = Some(p)
                /\ proba_failed' = (r = None)
                /\ health_score' = Some(score)
                /\ tabs' = TRUE
                /\ result_msg' = Some(ResultMsg(label))
                /\ metric_score' = Some(score)
                /\ colors' = Some(bars.colors)
                /\ attention_needed' = Some(bars.attention)
                /\ all_healthy' = AllHealthy(bars.attention)
                /\ tips' = Some(TipsTable)
                /\ tips_shown' = Some(TipsSection(table, TipsTable,
                                   categories, patient_values, bars.attention))
                /\ pdf_buffer' = Some(ReportText(label, p, score,
                                   Val(glucose), Val(blood_pressure),
                                   Val(insulin), Val(bmi), Val(age),
                                   Val(location)))
                /\ UNCHANGED warning

\* st.sidebar.button(...) is False: the script falls through to the footer.
NoClick ==
    /\ pc = "button"
    /\ pc' = "done"
    /\ UNCHANGED <<model, load_error, widgets_read, inputVars,
                   healthy_ranges, outVars, dom, prev>>

\* What the finished run received and rendered.
Request ==
    [reading |-> <<glucose, blood_pressure, insulin, bmi, age, location>>,
     verdict |-> <<prediction, proba, proba_failed>>]

Outcome ==
    [warning |-> warning, tabs |-> tabs, prediction |-> prediction,
     tips |-> tips,
     proba |-> proba, health_score |-> health_score,
     result_msg |-> result_msg, metric_score |-> metric_score,
     colors |-> colors, attention_needed |-> attention_needed,
     all_healthy |-> all_healthy, tips_shown |-> tips_shown,
     pdf_buffer |-> pdf_buffer]

\* The next user interaction: Streamlit runs the script again from the top.
Rerun ==
    /\ pc \in {"done", "stopped"}
    /\ pc' = "start"
    /\ model' = None
    /\ load_error' = FALSE
    /\ widgets_read' = FALSE
    /\ glucose' = None /\ blood_pressure' = None /\ insulin' = None
    /\ bmi' = None /\ age' = None /\ location' = None
    /\ healthy_ranges' = None
    /\ tips' = None
    /\ button' = FALSE
    /\ predict_calls' = 0 /\ proba_calls' = 0
    /\ features' = None /\ prediction' = None /\ proba' = None
    /\ proba_failed' = FALSE
    /\ health_score' = None
    /\ warning' = FALSE /\ tabs' = FALSE
    /\ result_msg' = None /\ metric_score' = None
    /\ colors' = None /\ attention_needed' = None
    /\ all_healthy' = FALSE /\ tips_shown' = None
    /\ pdf_buffer' = None
    /\ prev' = IF dom.track /\ button
               THEN Some([request |-> Request, outcome |-> Outcome])
               ELSE prev
    /\ UNCHANGED dom

Next ==
    \/ LoadModelOk
    \/ LoadModelFail
    \/ UserInput
    \/ DefineRanges
    \/ Predict
    \/ NoClick
    \/ Rerun

Spec == Init /\ [][Next]_vars

SpecH == InitH /\ [][Next]_vars

----------------------------------------------------------------------------
\* Vocabulary of the properties, stated independently of the handler.

\* The healthy ranges as the specification lists them (BMI in tenths).
StatedLow(cat) ==
    CASE cat = "Glucose" -> 70 [] cat = "Blood Pressure" -> 60
      [] cat = "Insulin" -> 16 [] cat = "BMI" -> 185 [] cat = "Age" -> 18

StatedHigh(cat) ==
    CASE cat = "Glucose" -> 140 [] cat = "Blood Pressure" -> 120
      [] cat = "Insulin" -> 166 [] cat = "BMI" -> 249 [] cat = "Age" -> 50

\* The declaration order of the five attributes.
DeclOrder == <<"Glucose", "Blood Pressure", "Insulin", "BMI", "Age">>

\* The reading of attribute number k of DeclOrder.
Reading(k) ==
    Val(<<glucose, blood_pressure, insulin, bmi, age>>[k])

Flagged(k) ==
    Reading(k) < StatedLow(DeclOrder[k]) \/ Reading(k) > StatedHigh(DeclOrder[k])

\* The attributes named by the attention messages, in the order shown.
AttentionCats ==
    [k \in 1..Len(Val(attention_needed)) |-> Val(attention_needed)[k].cat]

\* The out-of-range attributes in declaration order, from index k on.
RECURSIVE FlaggedFrom(_)
FlaggedFrom(k) ==
    IF k > Len(DeclOrder) THEN <<>>
    ELSE (IF Flagged(k) THEN <<DeclOrder[k]>> ELSE <<>>) \o FlaggedFrom(k + 1)

AnyFieldMissing ==
    \/ glucose = None \/ blood_pressure = None \/ insulin = None
    \/ bmi = None \/ age = None \/ location = Some("")

NothingComputed ==
    /\ predict_calls = 0 /\ proba_calls = 0 /\ features = None
    /\ prediction = None /\ proba = None /\ health_score = None
    /\ tabs = FALSE /\ result_msg = None /\ metric_score = None
    /\ colors = None /\ attention_needed = None /\ all_healthy = FALSE
    /\ tips_shown = None /\ pdf_buffer = None

\* A Predict request that was evaluated and rendered.
Evaluated == pc = "done" /\ button /\ tabs

\* Round to the nearest integer percent (ties to even, as Python's round).
RoundPercent(p) ==
    LET f == p \div Scale
        r == p % Scale
    IN  IF 2 * r < Scale THEN f
        ELSE IF 2 * r > Scale THEN f + 1
        ELSE IF f % 2 = 0 THEN f ELSE f + 1

----------------------------------------------------------------------------
\* C1: a Predict action on a reading with an unset numeric field or an empty
\* location shows the warning and nothing else: no classifier call, no score,
\* no out-of-range list, no tabs, no report.  Conversely the classifier is
\* only ever called on a reading with all six fields present.
C1_IncompleteRejected ==
    /\ (pc = "done" /\ button /\ AnyFieldMissing) =>
           (warning /\ NothingComputed)
    /\ (predict_calls > 0 \/ proba_calls > 0) =>
           (/\ ~AnyFieldMissing
            /\ features = Some(<<Val(glucose), Val(blood_pressure),
                                 Val(insulin), Val(bmi), Val(age)>>))

\* Reached: all five numbers entered, only the location left empty, rejected.
C1_Witness ==
    /\ pc = "done" /\ button /\ warning
    /\ None \notin {glucose, blood_pressure, insulin, bmi, age}
    /\ location = Some("")

\* C2: when loading the classifier fails, the run shows the error and halts:
\* no widget is read, no Predict is handled, nothing is computed or rendered.
C2_LoadFailureHalts ==
    load_error =>
        /\ pc = "stopped"
        /\ model = None
        /\ ~widgets_read /\ ~button /\ ~warning
        /\ glucose = None /\ blood_pressure = None /\ insulin = None
        /\ bmi = None /\ age = None /\ location = None
        /\ NothingComputed

C2_Witness == load_error /\ pc = "stopped"

\* C3: when predict_proba is absent or raises, the request still completes
\* with probability 50 percent and health score 50, without any error or
\* warning, and the label shown is the one predict returned.
C3_ProbaFallback ==
    (pc = "done" /\ button /\ ~AnyFieldMissing
        /\ (~Val(model).has_proba \/ proba_failed)) =>
        /\ tabs /\ pdf_buffer # None
        /\ proba_failed
        /\ proba = Some(50 * Scale)
        /\ health_score = Some(50) /\ metric_score = Some(50)
        /\ Val(pdf_buffer).score = 50 /\ Val(pdf_buffer).risk = 50 * Scale
        /\ ~load_error /\ ~warning
        /\ predict_calls = 1
        /\ prediction \in {Some(0), Some(1)}
        /\ (prediction = Some(1)) <=> (result_msg = Some("may have diabetes"))
        /\ (prediction = Some(0)) <=>
               (result_msg = Some("unlikely to have diabetes"))
        /\ (prediction = Some(1)) <=> (Val(pdf_buffer).prediction = "Diabetes")

\* Reached: a classifier without predict_proba, label 1 shown.
C3_Witness ==
    /\ Evaluated /\ ~Val(model).has_proba /\ proba_failed
    /\ prediction = Some(1) /\ health_score = Some(50)

\* C4: for every percent p in 0..100, non-integer percents included, the
\* health score is 100 minus p rounded to the nearest integer.
C4_ScoreIsHundredMinusRound ==
    (Evaluated /\ Val(proba) >= 0 /\ Val(proba) <= 100 * Scale) =>
        Val(health_score) = 100 - RoundPercent(Val(proba))

\* C5: the health score shown in the prediction view and in the report is an
\* integer in 0..100 whatever probability the classifier returns.
C5_ScoreWithinBounds ==
    Evaluated =>
        /\ Val(health_score) \in 0..100
        /\ Val(metric_score) \in 0..100
        /\ Val(pdf_buffer).score \in 0..100

\* C6: each attribute is flagged (red bar, attention message, tip) exactly
\* when its reading is below low or above high of its stated range; a reading
\* equal to low or to high is healthy: green bar, no message, no tip.
C6_FlaggedIffOutside ==
    Evaluated =>
        \A k \in 1..Len(DeclOrder) :
            LET cat == DeclOrder[k]
                hasMsg == \E j \in DOMAIN AttentionCats :
                              /\ AttentionCats[j] = cat
                              /\ Val(attention_needed)[j].low = StatedLow(cat)
                              /\ Val(attention_needed)[j].high = StatedHigh(cat)
                hasTip == \E j \in DOMAIN Val(tips_shown) :
                              Val(tips_shown)[j] = TipsTable[cat]
            IN  /\ Flagged(k) <=> (Val(colors)[k] = "#E74C3C")
                /\ ~Flagged(k) <=> (Val(colors)[k] = "#27AE60")
                /\ Flagged(k) <=> hasMsg
                /\ Flagged(k) <=> hasTip
                /\ Reading(k) \in {StatedLow(cat), StatedHigh(cat)} =>
                       (Val(colors)[k] = "#27AE60" /\ ~hasMsg /\ ~hasTip)

\* Reached: every attribute exactly on a bound of its range, some on low and
\* some on high.
C6_Witness ==
    /\ Evaluated
    /\ glucose = Some(70) /\ blood_pressure = Some(120)
    /\ insulin = Some(16) /\ bmi = Some(249) /\ age = Some(50)

\* C7: the attention messages name the out-of-range attributes in the
\* declaration order Glucose, Blood Pressure, Insulin, BMI, Age; the tips
\* shown are one per message, in the same order, each the tip keyed by that
\* attribute, and every such key is in the tips table.
C7_TipsFollowAttention ==
    Evaluated =>
        /\ AttentionCats = FlaggedFrom(1)
        /\ Len(Val(tips_shown)) = Len(Val(attention_needed))
        /\ \A j \in DOMAIN AttentionCats :
               /\ AttentionCats[j] \in DOMAIN Val(tips)
               /\ Val(tips_shown)[j] = Val(tips)[AttentionCats[j]]
        /\ DOMAIN Val(tips) = {DeclOrder[k] : k \in 1..Len(DeclOrder)}

\* Reached: three attributes out of range, not adjacent in the order.
C7_Witness ==
    /\ Evaluated
    /\ AttentionCats = <<"Glucose", "Insulin", "Age">>
    /\ Len(Val(tips_shown)) = 3

\* C8: when all five readings lie within their ranges the out-of-range list
\* is empty, no tip is shown and the all-values-healthy message is shown; and
\* that message is shown only when the out-of-range list is empty.
C8_AllHealthy ==
    /\ (Evaluated /\ \A k \in 1..Len(DeclOrder) : ~Flagged(k)) =>
           /\ Val(attention_needed) = <<>>
           /\ Val(tips_shown) = <<>>
           /\ all_healthy
    /\ all_healthy => (Evaluated /\ Len(Val(attention_needed)) = 0
                                 /\ Len(FlaggedFrom(1)) = 0)

C8_Witness ==
    /\ Evaluated /\ all_healthy
    /\ glucose = Some(110) /\ blood_pressure = Some(80)
    /\ insulin = Some(85) /\ bmi = Some(185) /\ age = Some(35)

\* The example request of C9.
C9_Example ==
    /\ Evaluated
    /\ glucose = Some(110) /\ blood_pressure = Some(80)
    /\ insulin = Some(85) /\ bmi = Some(255) /\ age = Some(35)
    /\ prediction = Some(0) /\ proba = Some(120) /\ ~proba_failed

\* C9 as stated: for glucose=110, blood_pressure=80, insulin=85, bmi=25.5,
\* age=35 with label 0 and probability 0.12 the out-of-range list is empty,
\* the health score is 88 and the report says unlikely to have diabetes.
C9_ExampleAsStated ==
    C9_Example =>
        /\ Len(Val(attention_needed)) = 0
        /\ health_score = Some(88)
        /\ result_msg = Some("unlikely to have diabetes")

\* C9 amended: for that request the out-of-range list is exactly BMI
\* (25.5 > 24.9), with the BMI tip shown; the health score is 88 and the
\* prediction view and the report say unlikely to have diabetes / No Diabetes.
C9_ExampleAmended ==
    C9_Example =>
        /\ AttentionCats = <<"BMI">>
        /\ Val(tips_shown) =
             <<"A balanced diet and regular exercise may help improve BMI.">>
        /\ ~all_healthy
        /\ health_score = Some(88) /\ metric_score = Some(88)
        /\ Val(pdf_buffer).score = 88
        /\ result_msg = Some("unlikely to have diabetes")
        /\ Val(pdf_buffer).prediction = "No Diabetes"

C9_Witness == C9_Example /\ location = Some("Narowal, Pakistan")

\* C10: a request's result depends only on its six inputs and the
\* classifier's verdict for them, never on the request before it (rejected
\* and fallback requests included), and handling a request leaves the loaded
\* classifier and the healthy-range table as they were and builds the same
\* tips table every time.
C10_Stateless ==
    [][(pc = "button" /\ pc' = "done" /\ button') =>
          /\ model' = model
          /\ healthy_ranges' = healthy_ranges
          /\ prev # None =>
               /\ (Val(prev).request = Request') =>
                      (Val(prev).outcome = Outcome')
               /\ (Val(prev).outcome.tips # None /\ tips' # None) =>
                      (tips' = Val(prev).outcome.tips)]_vars

\* Reached: the same complete request evaluated twice in a row with the
\* fallback verdict, after which both outcomes are on record.
C10_Witness ==
    /\ Evaluated /\ proba_failed /\ prev # None
    /\ Val(prev).request = Request
    /\ Val(prev).outcome = Outcome

====
